---- MODULE Spec2Model ----
(***************************************************************************)
(* Contract analysis and result-ranking pipeline of mcp-legal-search:      *)
(* services/search_service.py and services/serpapi_client.py.              *)
(*                                                                         *)
(* A Python str is a sequence of one-character strings, so that substring  *)
(* tests, lower-casing and URL parsing are computed as the code computes   *)
(* them.  A Python dict is a TLA+ record (a function on its keys), so that *)
(* `"error" in d` is a test on DOMAIN d and d.get(k, default) is Get.      *)
(***************************************************************************)
EXTENDS Integers, Sequences, FiniteSets, TLC

VARIABLES
    pc,                \* position of the request: in the endpoint, in analyze_and_search_contracts
    analysis,          \* analyze_contract's record
    in_flight,         \* the blocking searches handed to a thread and not yet returned
    search_results,    \* what the primary run_search returned
    targeted_results,  \* what the targeted run_search returned
    combined_results,  \* combine_search_results' return value
    response,          \* what analyze_and_search_contracts returned or raised
    never_returns,     \* the blocking searches that the backend never answers
    request,           \* the body of a POST /api/legal/analyze
    http_response,     \* the endpoint's answer to it
    call,              \* a function of the pipeline applied on its own, with its arguments
    call_value         \* what that call returned

pipeline == <<pc, analysis, in_flight, search_results, targeted_results, combined_results, response>>
outside == <<never_returns, request, http_response, call, call_value>>
vars == <<pipeline, outside>>

None == [none |-> TRUE]

---------------------------------------------------------------------------
(* str and dict primitives *)

UpperToLower == "A" :> "a" @@ "B" :> "b" @@ "C" :> "c" @@ "D" :> "d" @@ "E" :> "e" @@ "F" :> "f" @@ "G" :> "g" @@ "H" :> "h" @@ "I" :> "i" @@ "J" :> "j" @@ "K" :> "k" @@ "L" :> "l" @@ "M" :> "m" @@ "N" :> "n" @@ "O" :> "o" @@ "P" :> "p" @@ "Q" :> "q" @@ "R" :> "r" @@ "S" :> "s" @@ "T" :> "t" @@ "U" :> "u" @@ "V" :> "v" @@ "W" :> "w" @@ "X" :> "x" @@ "Y" :> "y" @@ "Z" :> "z"

\* str.lower()
Lower(s) == [i \in 1..Len(s) |-> IF s[i] \in DOMAIN UpperToLower THEN UpperToLower[s[i]] ELSE s[i]]

\* sub in s
Contains(s, sub) == \E i \in 0..(Len(s) - Len(sub)) : \A j \in 1..Len(sub) : s[i + j] = sub[j]

\* any(w in s for w in words)
AnyIn(words, s) == \E k \in 1..Len(words) : Contains(s, words[k])

\* s.startswith(p)
StartsWith(s, p) == Len(p) <= Len(s) /\ \A j \in 1..Len(p) : s[j] = p[j]

\* d.get(k, default)
Get(d, k, default) == IF k \in DOMAIN d THEN d[k] ELSE default

\* s.find(c) for a one-character c, 1-based; 0 when absent
Find(s, c) == IF \E i \in 1..Len(s) : s[i] = c THEN CHOOSE i \in 1..Len(s) : s[i] = c /\ \A j \in 1..(i - 1) : s[j] # c ELSE 0

RECURSIVE ReplaceAll(_, _)
\* s.replace(old, "") for a non-empty old: leftmost non-overlapping occurrences
ReplaceAll(s, old) ==
    IF Len(s) < Len(old) THEN s
    ELSE IF StartsWith(s, old) THEN ReplaceAll(SubSeq(s, Len(old) + 1, Len(s)), old)
    ELSE <<s[1]>> \o ReplaceAll(Tail(s), old)

---------------------------------------------------------------------------
(* Document Classifier & Ranker *)

DirectExts == <<<<".","p","d","f">>, <<".","d","o","c">>, <<".","d","o","c","x">>, <<".","t","x","t">>>>
doc_indicators == <<<<"d","o","w","n","l","o","a","d">>, <<"d","o","c","u","m","e","n","t">>, <<"f","i","l","e">>, <<"a","t","t","a","c","h","m","e","n","t">>, <<"f","o","r","m","s">>, <<"t","e","m","p","l","a","t","e","s">>, <<"s","a","m","p","l","e","s">>, <<"e","x","a","m","p","l","e","s">>, <<"c","o","n","t","r","a","c","t","s">>>>
title_indicators == <<<<"d","o","w","n","l","o","a","d">>, <<"p","d","f">>, <<"t","e","m","p","l","a","t","e">>, <<"f","o","r","m">>, <<"s","a","m","p","l","e">>, <<"e","x","a","m","p","l","e">>, <<"d","o","c","u","m","e","n","t">>, <<"[","p","d","f","]">>, <<"(","p","d","f",")">>, <<".","p","d","f">>>>
legal_sites == <<<<"s","e","c",".","g","o","v">>, <<"c","o","u","r","t","s",".","g","o","v">>, <<"l","a","w","i","n","s","i","d","e","r",".","c","o","m">>, <<"c","o","n","t","r","a","c","t","s","t","a","n","d","a","r","d","s",".","c","o","m">>, <<"f","i","n","d","l","a","w",".","c","o","m">>, <<"j","u","s","t","i","a",".","c","o","m">>, <<"d","o","c","r","a","c","y",".","c","o","m">>, <<"l","a","w","d","e","p","o","t",".","c","o","m">>>>

\* variant: the file-extension check left out
is_direct_document_link_no_extension_check(url, title) ==
    LET url_lower == Lower(url)
        title_lower == Lower(title)
    IN  IF AnyIn(doc_indicators, url_lower) THEN TRUE
        ELSE IF AnyIn(title_indicators, title_lower) THEN TRUE
        ELSE IF AnyIn(legal_sites, url_lower) THEN TRUE
        ELSE FALSE

is_direct_document_link(url, title) ==
    LET url_lower == Lower(url)
        title_lower == Lower(title)
    IN  IF AnyIn(DirectExts, url_lower) THEN TRUE
        ELSE IF AnyIn(doc_indicators, url_lower) THEN TRUE
        ELSE IF AnyIn(title_indicators, title_lower) THEN TRUE
        ELSE IF AnyIn(legal_sites, url_lower) THEN TRUE
        ELSE FALSE

RECURSIVE PrioritizeLoop_prepend(_, _, _, _)
\* variant: direct_docs.insert(0, result) in place of direct_docs.append(result)
PrioritizeLoop_prepend(results, i, direct_docs, web_pages) ==
    IF i > Len(results) THEN <<direct_docs, web_pages>>
    ELSE LET result == results[i]
             url == Lower(Get(result, "link", <<>>))
             title == Lower(Get(result, "title", <<>>))
         IN  IF is_direct_document_link(url, title)
             THEN PrioritizeLoop_prepend(results, i + 1, <<result>> \o direct_docs, web_pages)
             ELSE PrioritizeLoop_prepend(results, i + 1, direct_docs, Append(web_pages, result))

RECURSIVE PrioritizeLoop(_, _, _, _)
\* the for loop of prioritize_document_links, from index i on
PrioritizeLoop(results, i, direct_docs, web_pages) ==
    IF i > Len(results) THEN <<direct_docs, web_pages>>
    ELSE LET result == results[i]
             url == Lower(Get(result, "link", <<>>))
             title == Lower(Get(result, "title", <<>>))
         IN  IF is_direct_document_link(url, title)
             THEN PrioritizeLoop(results, i + 1, Append(direct_docs, result), web_pages)
             ELSE PrioritizeLoop(results, i + 1, direct_docs, Append(web_pages, result))

prioritize_document_links(results) ==
    LET groups == PrioritizeLoop(results, 1, <<>>, <<>>)
    IN  groups[1] \o groups[2]

DirectDocument == <<"D","i","r","e","c","t"," ","D","o","c","u","m","e","n","t">>
TemplateForm == <<"T","e","m","p","l","a","t","e","/","F","o","r","m">>
LegalDatabase == <<"L","e","g","a","l"," ","D","a","t","a","b","a","s","e">>
CourtDocument == <<"C","o","u","r","t"," ","D","o","c","u","m","e","n","t">>
LegalResource == <<"L","e","g","a","l"," ","R","e","s","o","u","r","c","e">>

LinkTypeExts == <<<<".","p","d","f">>, <<".","d","o","c">>, <<".","d","o","c","x">>>>
TemplateWords == <<<<"t","e","m","p","l","a","t","e">>, <<"f","o","r","m">>, <<"s","a","m","p","l","e">>>>
DatabaseSites == <<<<"s","e","c",".","g","o","v">>, <<"l","a","w","i","n","s","i","d","e","r",".","c","o","m">>, <<"c","o","n","t","r","a","c","t","s","t","a","n","d","a","r","d","s",".","c","o","m">>>>

\* variant: the template/form check placed before the file-extension check
determine_link_type_template_first(url, title) ==
    LET url_lower == Lower(url)
        title_lower == Lower(title)
    IN  IF \E k \in 1..Len(TemplateWords) : Contains(url_lower, TemplateWords[k]) \/ Contains(title_lower, TemplateWords[k]) THEN TemplateForm
        ELSE IF AnyIn(LinkTypeExts, url_lower) THEN DirectDocument
        ELSE IF AnyIn(DatabaseSites, url_lower) THEN LegalDatabase
        ELSE IF Contains(url_lower, <<"c","o","u","r","t","s",".","g","o","v">>) \/ Contains(title_lower, <<"c","o","u","r","t">>) THEN CourtDocument
        ELSE LegalResource

determine_link_type(url, title) ==
    LET url_lower == Lower(url)
        title_lower == Lower(title)
    IN  IF AnyIn(LinkTypeExts, url_lower) THEN DirectDocument
        ELSE IF \E k \in 1..Len(TemplateWords) : Contains(url_lower, TemplateWords[k]) \/ Contains(title_lower, TemplateWords[k]) THEN TemplateForm
        ELSE IF AnyIn(DatabaseSites, url_lower) THEN LegalDatabase
        ELSE IF Contains(url_lower, <<"c","o","u","r","t","s",".","g","o","v">>) \/ Contains(title_lower, <<"c","o","u","r","t">>) THEN CourtDocument
        ELSE LegalResource

source_descriptions ==
    [d \in {<<"s","e","c",".","g","o","v">>, <<"c","o","u","r","t","s",".","g","o","v">>, <<"l","a","w","i","n","s","i","d","e","r",".","c","o","m">>, <<"c","o","n","t","r","a","c","t","s","t","a","n","d","a","r","d","s",".","c","o","m">>, <<"f","i","n","d","l","a","w",".","c","o","m">>, <<"j","u","s","t","i","a",".","c","o","m">>, <<"d","o","c","r","a","c","y",".","c","o","m">>, <<"l","a","w","d","e","p","o","t",".","c","o","m">>} |->
        CASE d = <<"s","e","c",".","g","o","v">> -> <<"S","E","C"," ","F","i","l","i","n","g">>
          [] d = <<"c","o","u","r","t","s",".","g","o","v">> -> <<"C","o","u","r","t"," ","S","y","s","t","e","m">>
          [] d = <<"l","a","w","i","n","s","i","d","e","r",".","c","o","m">> -> <<"L","a","w"," ","I","n","s","i","d","e","r"," ","D","a","t","a","b","a","s","e">>
          [] d = <<"c","o","n","t","r","a","c","t","s","t","a","n","d","a","r","d","s",".","c","o","m">> -> <<"C","o","n","t","r","a","c","t"," ","S","t","a","n","d","a","r","d","s">>
          [] d = <<"f","i","n","d","l","a","w",".","c","o","m">> -> <<"F","i","n","d","L","a","w"," ","R","e","s","o","u","r","c","e">>
          [] d = <<"j","u","s","t","i","a",".","c","o","m">> -> <<"J","u","s","t","i","a"," ","L","e","g","a","l"," ","P","o","r","t","a","l">>
          [] d = <<"d","o","c","r","a","c","y",".","c","o","m">> -> <<"D","o","c","r","a","c","y"," ","T","e","m","p","l","a","t","e","s">>
          [] d = <<"l","a","w","d","e","p","o","t",".","c","o","m">> -> <<"L","a","w","D","e","p","o","t"," ","F","o","r","m","s">>]

get_source_info(domain, link_type) ==
    IF domain \in DOMAIN source_descriptions
    THEN source_descriptions[domain] \o <<" ","(">> \o link_type \o <<")">>
    ELSE domain \o <<" ","(">> \o link_type \o <<")">>

\* the emoji that opens each description is one character
DirectDownloadMarker == <<"U+1F4C4">> \o <<" ","D","i","r","e","c","t"," ","D","o","w","n","l","o","a","d",":"," ">>
TemplateFormMarker == <<"U+1F4DD">> \o <<" ","T","e","m","p","l","a","t","e","/","F","o","r","m",":"," ">>
LegalDatabaseMarker == <<"U+1F3DB", "U+FE0F">> \o <<" ","L","e","g","a","l"," ","D","a","t","a","b","a","s","e"," ","E","n","t","r","y",":"," ">>
CourtDocumentMarker == <<"U+2696", "U+FE0F">> \o <<" ","C","o","u","r","t"," ","D","o","c","u","m","e","n","t",":"," ">>
LegalResourceMarker == <<"U+1F517">> \o <<" ","L","e","g","a","l"," ","R","e","s","o","u","r","c","e",":"," ">>

create_clickable_description(title, link_type, domain) ==
    IF link_type = DirectDocument THEN DirectDownloadMarker \o title
    ELSE IF link_type = TemplateForm THEN TemplateFormMarker \o title
    ELSE IF link_type = LegalDatabase THEN LegalDatabaseMarker \o title
    ELSE IF link_type = CourtDocument THEN CourtDocumentMarker \o title
    ELSE LegalResourceMarker \o title

Score(hit, points) == IF hit THEN points ELSE 0

RECURSIVE KeyTermScore_penalises_miss(_, _, _)
\* variant: a key term that does not occur takes a point away
KeyTermScore_penalises_miss(terms, i, text) ==
    IF i > Len(terms) THEN 0
    ELSE (IF Contains(text, Lower(terms[i])) THEN 1 ELSE 0 - 1) + KeyTermScore_penalises_miss(terms, i + 1, text)

RECURSIVE KeyTermScore(_, _, _)
\* the key-term loop of calculate_relevance, from index i on
KeyTermScore(terms, i, text) ==
    IF i > Len(terms) THEN 0
    ELSE Score(Contains(text, Lower(terms[i])), 1) + KeyTermScore(terms, i + 1, text)

relevance_points(result, an) ==
    LET text == Lower(Get(result, "title", <<>>) \o <<" ">> \o Get(result, "snippet", <<>>))
    IN  Score(Contains(text, an.contract_type), 3)
        + Score(Contains(text, Lower(an.location)), 2)
        + KeyTermScore(Get(an, "key_terms", <<>>), 1, text)

\* variant: `score > 4` in place of `score >= 4`
calculate_relevance_strict_threshold(result, an) ==
    LET score == relevance_points(result, an)
    IN  IF score > 4 THEN <<"H","i","g","h">>
        ELSE IF score >= 2 THEN <<"M","e","d","i","u","m">>
        ELSE <<"L","o","w">>

calculate_relevance(result, an) ==
    LET score == relevance_points(result, an)
    IN  IF score >= 4 THEN <<"H","i","g","h">>
        ELSE IF score >= 2 THEN <<"M","e","d","i","u","m">>
        ELSE <<"L","o","w">>

AsciiLetters == {"a", "b", "c", "d", "e", "f", "g", "h", "i", "j", "k", "l", "m", "n", "o", "p", "q", "r", "s", "t", "u", "v", "w", "x", "y", "z", "A", "B", "C", "D", "E", "F", "G", "H", "I", "J", "K", "L", "M", "N", "O", "P", "Q", "R", "S", "T", "U", "V", "W", "X", "Y", "Z"}
AsciiDigits == {"0", "1", "2", "3", "4", "5", "6", "7", "8", "9"}
scheme_chars == AsciiLetters \cup AsciiDigits \cup {"+", "-", "."}

\* urlsplit: the url with its scheme and the colon after it removed
AfterScheme(url) ==
    LET i == Find(url, ":")
    IN  IF i > 1 /\ url[1] \in AsciiLetters /\ \A j \in 1..(i - 1) : url[j] \in scheme_chars
        THEN SubSeq(url, i + 1, Len(url))
        ELSE url

\* urlparse(url).netloc; Invalid when urlsplit raises ValueError
Invalid == <<"ValueError">>
netloc(url) ==
    LET rest == AfterScheme(url)
        ends == {k \in 3..Len(rest) : rest[k] \in {"/", "?", "#"}}
        delim == IF ends = {} THEN Len(rest) + 1 ELSE CHOOSE k \in ends : \A m \in ends : k <= m
        loc == SubSeq(rest, 3, delim - 1)
        open == \E k \in 1..Len(loc) : loc[k] = "["
        close == \E k \in 1..Len(loc) : loc[k] = "]"
    IN  IF ~StartsWith(rest, <<"/","/">>) THEN <<>>
        ELSE IF open # close THEN Invalid
        ELSE loc

Unknown == <<"U","n","k","n","o","w","n">>

extract_domain(url) ==
    LET domain == netloc(url)
    IN  IF domain = Invalid THEN Unknown
        ELSE IF domain # <<>> THEN ReplaceAll(domain, <<"w","w","w",".">>) ELSE Unknown

MaxResults == 12

\* the body of the loop of format_legal_results
FormatResult(result, an) ==
    LET title == Get(result, "title", <<"U","n","t","i","t","l","e","d"," ","D","o","c","u","m","e","n","t">>)
        url == Get(result, "link", <<>>)
        snippet == Get(result, "snippet", <<"N","o"," ","d","e","s","c","r","i","p","t","i","o","n"," ","a","v","a","i","l","a","b","l","e">>)
        relevance_score == calculate_relevance(result, an)
        link_type == determine_link_type(url, title)
        domain == extract_domain(url)
        source_info == get_source_info(domain, link_type)
    IN  [title |-> title,
         url |-> url,
         snippet |-> snippet,
         contract_type |-> an.contract_type,
         location |-> Get(result, "location", an.location),
         relevance_score |-> relevance_score,
         source |-> source_info,
         link_type |-> link_type,
         domain |-> domain,
         clickable_description |-> create_clickable_description(title, link_type, domain)]

\* seq[:n]
Take(seq, n) == SubSeq(seq, 1, IF Len(seq) < n THEN Len(seq) ELSE n)

\* variant: prioritize_document_links(organic_results[:12])
ResultsToFormat_truncate_first(organic_results) == prioritize_document_links(Take(organic_results, MaxResults))

\* the results the loop of format_legal_results enumerates
ResultsToFormat(organic_results) == Take(prioritize_document_links(organic_results), MaxResults)

format_legal_results(results, an) ==
    LET organic_results == Get(results, "organic_results", <<>>)
    IN  IF organic_results = <<>> THEN <<>>
        ELSE LET shown == ResultsToFormat(organic_results)
             IN  [i \in 1..Len(shown) |-> FormatResult(shown[i], an)]

---------------------------------------------------------------------------
(* Result Merger *)

RECURSIVE AddUnseen_never_marks(_, _, _, _)
\* variant: seen_urls.add(url) left out
AddUnseen_never_marks(results, i, seen_urls, combined_organic) ==
    IF i > Len(results) THEN <<seen_urls, combined_organic>>
    ELSE LET url == Get(results[i], "link", <<>>)
         IN  IF url \notin seen_urls
             THEN AddUnseen_never_marks(results, i + 1, seen_urls, Append(combined_organic, results[i]))
             ELSE AddUnseen_never_marks(results, i + 1, seen_urls, combined_organic)

RECURSIVE AddUnseen(_, _, _, _)
\* one de-duplicating for loop of combine_search_results, from index i on
AddUnseen(results, i, seen_urls, combined_organic) ==
    IF i > Len(results) THEN <<seen_urls, combined_organic>>
    ELSE LET url == Get(results[i], "link", <<>>)
         IN  IF url \notin seen_urls
             THEN AddUnseen(results, i + 1, seen_urls \cup {url}, Append(combined_organic, results[i]))
             ELSE AddUnseen(results, i + 1, seen_urls, combined_organic)

\* dict(d, organic_results=value)
WithOrganic(d, value) ==
    [k \in DOMAIN d \cup {"organic_results"} |-> IF k = "organic_results" THEN value ELSE d[k]]

\* variant: the primary results iterated before the targeted results
combine_primary_first(primary_results, targeted_results_) ==
    IF "error" \in DOMAIN primary_results THEN primary_results
    ELSE IF "error" \in DOMAIN targeted_results_ THEN primary_results
    ELSE LET primary_organic == Get(primary_results, "organic_results", <<>>)
             targeted_organic == Get(targeted_results_, "organic_results", <<>>)
             after_primary == AddUnseen(primary_organic, 1, {}, <<>>)
             after_targeted == AddUnseen(targeted_organic, 1, after_primary[1], after_primary[2])
         IN  WithOrganic(primary_results, after_targeted[2])

\* variant: a failed targeted search returned in place of the primary results
combine_propagates_targeted_error(primary_results, targeted_results_) ==
    IF "error" \in DOMAIN primary_results THEN primary_results
    ELSE IF "error" \in DOMAIN targeted_results_ THEN targeted_results_
    ELSE LET primary_organic == Get(primary_results, "organic_results", <<>>)
             targeted_organic == Get(targeted_results_, "organic_results", <<>>)
             after_targeted == AddUnseen(targeted_organic, 1, {}, <<>>)
             after_primary == AddUnseen(primary_organic, 1, after_targeted[1], after_targeted[2])
         IN  WithOrganic(primary_results, after_primary[2])

\* variant: a failed primary search replaced by the targeted results
combine_fallback_to_targeted(primary_results, targeted_results_) ==
    IF "error" \in DOMAIN primary_results THEN targeted_results_
    ELSE IF "error" \in DOMAIN targeted_results_ THEN primary_results
    ELSE LET primary_organic == Get(primary_results, "organic_results", <<>>)
             targeted_organic == Get(targeted_results_, "organic_results", <<>>)
             after_targeted == AddUnseen(targeted_organic, 1, {}, <<>>)
             after_primary == AddUnseen(primary_organic, 1, after_targeted[1], after_targeted[2])
         IN  WithOrganic(primary_results, after_primary[2])

combine_search_results(primary_results, targeted_results_) ==
    IF "error" \in DOMAIN primary_results THEN primary_results
    ELSE IF "error" \in DOMAIN targeted_results_ THEN primary_results
    ELSE LET primary_organic == Get(primary_results, "organic_results", <<>>)
             targeted_organic == Get(targeted_results_, "organic_results", <<>>)
             after_targeted == AddUnseen(targeted_organic, 1, {}, <<>>)
             after_primary == AddUnseen(primary_organic, 1, after_targeted[1], after_targeted[2])
         IN  WithOrganic(primary_results, after_primary[2])

---------------------------------------------------------------------------
(* Extractor Set *)

\* the categories of determine_contract_type, in the order the dict defines them
contract_types ==
    << [type |-> <<"e","m","p","l","o","y","m","e","n","t">>, keywords |-> <<<<"e","m","p","l","o","y","m","e","n","t">>, <<"e","m","p","l","o","y","e","e">>, <<"e","m","p","l","o","y","e","r">>, <<"j","o","b">>, <<"s","a","l","a","r","y">>, <<"w","a","g","e","s">>, <<"p","o","s","i","t","i","o","n">>>>],
       [type |-> <<"l","e","a","s","e">>, keywords |-> <<<<"l","e","a","s","e">>, <<"r","e","n","t">>, <<"t","e","n","a","n","t">>, <<"l","a","n","d","l","o","r","d">>, <<"p","r","e","m","i","s","e","s">>, <<"p","r","o","p","e","r","t","y">>>>],
       [type |-> <<"p","u","r","c","h","a","s","e">>, keywords |-> <<<<"p","u","r","c","h","a","s","e">>, <<"b","u","y">>, <<"s","e","l","l">>, <<"s","a","l","e">>, <<"b","u","y","e","r">>, <<"s","e","l","l","e","r">>, <<"g","o","o","d","s">>>>],
       [type |-> <<"s","e","r","v","i","c","e">>, keywords |-> <<<<"s","e","r","v","i","c","e">>, <<"s","e","r","v","i","c","e","s">>, <<"p","r","o","v","i","d","e","r">>, <<"c","l","i","e","n","t">>, <<"w","o","r","k">>, <<"p","e","r","f","o","r","m">>>>],
       [type |-> <<"p","a","r","t","n","e","r","s","h","i","p">>, keywords |-> <<<<"p","a","r","t","n","e","r","s","h","i","p">>, <<"p","a","r","t","n","e","r">>, <<"j","o","i","n","t"," ","v","e","n","t","u","r","e">>, <<"c","o","l","l","a","b","o","r","a","t","e">>>>],
       [type |-> <<"n","d","a">>, keywords |-> <<<<"c","o","n","f","i","d","e","n","t","i","a","l">>, <<"n","o","n","-","d","i","s","c","l","o","s","u","r","e">>, <<"p","r","o","p","r","i","e","t","a","r","y">>, <<"t","r","a","d","e"," ","s","e","c","r","e","t">>>>],
       [type |-> <<"l","i","c","e","n","s","e">>, keywords |-> <<<<"l","i","c","e","n","s","e">>, <<"l","i","c","e","n","s","i","n","g">>, <<"i","n","t","e","l","l","e","c","t","u","a","l"," ","p","r","o","p","e","r","t","y">>, <<"c","o","p","y","r","i","g","h","t">>, <<"p","a","t","e","n","t">>>>] >>

RECURSIVE KeywordScore(_, _, _)
\* sum(1 for keyword in keywords if keyword in text_lower), from index i on
KeywordScore(keywords, i, text_lower) ==
    IF i > Len(keywords) THEN 0
    ELSE (IF Contains(text_lower, keywords[i]) THEN 1 ELSE 0) + KeywordScore(keywords, i + 1, text_lower)

RECURSIVE TypeScores(_, _)
\* type_scores: the categories with a score above 0, in insertion order
TypeScores(i, text_lower) ==
    IF i > Len(contract_types) THEN <<>>
    ELSE LET score == KeywordScore(contract_types[i].keywords, 1, text_lower)
         IN  (IF score > 0 THEN <<[type |-> contract_types[i].type, score |-> score]>> ELSE <<>>)
             \o TypeScores(i + 1, text_lower)

RECURSIVE MaxByScore_last_wins(_, _, _)
\* variant: a later category replaces the best one on an equal score
MaxByScore_last_wins(type_scores, i, best) ==
    IF i > Len(type_scores) THEN best
    ELSE IF type_scores[i].score >= best.score
         THEN MaxByScore_last_wins(type_scores, i + 1, type_scores[i])
         ELSE MaxByScore_last_wins(type_scores, i + 1, best)

RECURSIVE MaxByScore(_, _, _)
\* max(type_scores, key=type_scores.get): the first of the largest, from index i on
MaxByScore(type_scores, i, best) ==
    IF i > Len(type_scores) THEN best
    ELSE IF type_scores[i].score > best.score
         THEN MaxByScore(type_scores, i + 1, type_scores[i])
         ELSE MaxByScore(type_scores, i + 1, best)

GeneralContract == <<"g","e","n","e","r","a","l"," ","c","o","n","t","r","a","c","t">>

determine_contract_type(text) ==
    LET text_lower == Lower(text)
        type_scores == TypeScores(1, text_lower)
    IN  IF type_scores # <<>>
        THEN MaxByScore(type_scores, 2, type_scores[1]).type
        ELSE GeneralContract

---------------------------------------------------------------------------
(* Search Gateway *)

\* variant: run_search without its try/except
run_search_reraises(outcome) ==
    IF "raised" \in DOMAIN outcome
    THEN [raised |-> outcome.raised]
    ELSE [returned |-> outcome.returned]

\* run_search, given how the blocking GoogleSearch(params).get_dict() ended:
\* [returned |-> dict] or [raised |-> str(e)] for an Exception e.
\* The value is [returned |-> v] when run_search returns v and
\* [raised |-> m] when it lets the exception through to its caller.
run_search(outcome) ==
    IF "raised" \in DOMAIN outcome
    THEN [returned |-> [error |-> outcome.raised]]
    ELSE [returned |-> outcome.returned]

---------------------------------------------------------------------------
(* What the collaborators can hand to the pipeline *)

MaxLen == 2
MaxLong == 13
PrimaryNum == 15
TargetedNum == 10

\* analyze_contract's record for the request's contract text
Analyses ==
    { [location |-> <<"C","a","l","i","f","o","r","n","i","a">>, contract_type |-> <<"e","m","p","l","o","y","m","e","n","t">>,
       key_terms |-> <<<<"D","u","r","a","t","i","o","n">>>>, parties |-> <<<<"A","c","m","e"," ","C","o","r","p">>, <<"J","o","h","n"," ","D","o","e">>>>,
       subject_matter |-> <<"E","m","p","l","o","y","m","e","n","t"," ","a","g","r","e","e","m","e","n","t"," ","-"," ","e","m","p","l","o","y","m","e","n","t"," ","c","o","n","t","r","a","c","t">>,
       jurisdiction |-> <<"t","h","e"," ","S","t","a","t","e"," ","o","f"," ","C","a","l","i","f","o","r","n","i","a">>],
      [location |-> <<"L","o","c","a","t","i","o","n"," ","n","o","t"," ","s","p","e","c","i","f","i","e","d">>, contract_type |-> <<"g","e","n","e","r","a","l"," ","c","o","n","t","r","a","c","t">>,
       key_terms |-> <<<<"S","t","a","n","d","a","r","d"," ","c","o","n","t","r","a","c","t"," ","t","e","r","m","s">>>>, parties |-> <<<<"P","a","r","t","i","e","s"," ","n","o","t"," ","s","p","e","c","i","f","i","e","d">>>>,
       subject_matter |-> <<"G","e","n","e","r","a","l"," ","C","o","n","t","r","a","c","t"," ","a","g","r","e","e","m","e","n","t">>,
       jurisdiction |-> None] }

\* raw records the search backend may list for the primary query
PrimaryCatalog ==
    { [link |-> <<"h","t","t","p","s",":","/","/","w","w","w",".","s","e","c",".","g","o","v","/","f","o","r","m","s","/","x",".","p","d","f">>, title |-> <<"F","i","l","i","n","g">>, snippet |-> <<"d","u","r","a","t","i","o","n"," ","o","f"," ","t","h","e"," ","e","m","p","l","o","y","m","e","n","t">>],
      [link |-> <<"h","t","t","p","s",":","/","/","e","x","a","m","p","l","e",".","c","o","m","/","a","b","o","u","t">>, title |-> <<"A","b","o","u","t"," ","U","s">>, snippet |-> <<"W","h","o"," ","w","e"," ","a","r","e">>],
      [title |-> <<"C","o","u","r","t"," ","r","u","l","i","n","g">>],
      [link |-> <<"h","t","t","p","s",":","/","/","a",".","c","o","m","/","t">>, title |-> <<"L","e","a","s","e"," ","T","e","m","p","l","a","t","e">>, snippet |-> <<"c","a","l","i","f","o","r","n","i","a">>] }

\* raw records the search backend may list for the targeted query
TargetedCatalog ==
    { [link |-> <<"h","t","t","p","s",":","/","/","w","w","w",".","s","e","c",".","g","o","v","/","f","o","r","m","s","/","x",".","p","d","f">>, title |-> <<"C","o","u","r","t"," ","F","o","r","m"," ","S","a","m","p","l","e">>, snippet |-> <<"E","m","p","l","o","y","m","e","n","t"," ","i","n"," ","C","a","l","i","f","o","r","n","i","a">>],
      [link |-> <<"h","t","t","p","s",":","/","/","w","w","w",".","s","e","c",".","g","o","v","/","f","o","r","m","s","/","x",".","p","d","f">>, title |-> <<"F","i","l","i","n","g">>, snippet |-> <<"d","u","r","a","t","i","o","n"," ","o","f"," ","t","h","e"," ","e","m","p","l","o","y","m","e","n","t">>],
      [title |-> <<"C","o","u","r","t"," ","r","u","l","i","n","g">>] }

\* the listings of at most MaxLen records
ShortLists(catalog) == UNION {[1..n -> catalog] : n \in 0..MaxLen}

Idx == <<"a","b","c","d","e","f","g","h","i","j","k","l","m","n","o","p","q","r","s","t","u","v","w","x","y","z">>

\* the i-th record of a long listing: distinct URLs, six kinds of page in turn
LongRecord(i, title) ==
    LET c == <<Idx[i]>>
        kind == i % 6
    IN  CASE kind = 1 -> [link |-> <<"h","t","t","p","s",":","/","/","w","w","w",".","s","e","c",".","g","o","v","/","f","o","r","m","s","/">> \o c \o <<".","p","d","f">>, title |-> title \o <<" ","C","o","u","r","t"," ","F","o","r","m"," ","S","a","m","p","l","e">>, snippet |-> <<"E","m","p","l","o","y","m","e","n","t"," ","i","n"," ","C","a","l","i","f","o","r","n","i","a">>]
          [] kind = 2 -> [link |-> <<"h","t","t","p","s",":","/","/","e","x","a","m","p","l","e",".","c","o","m","/">> \o c, title |-> title \o <<" ","A","b","o","u","t"," ","U","s">>, snippet |-> <<"W","h","o"," ","w","e"," ","a","r","e">>]
          [] kind = 3 -> [link |-> <<"h","t","t","p",":","/","/","a",".","c","o","m","/">> \o c \o <<".","t","x","t">>, title |-> title \o <<" ","N","o","t","e","s">>, snippet |-> <<"e","m","p","l","o","y","m","e","n","t">>]
          [] kind = 4 -> [link |-> <<"h","t","t","p","s",":","/","/","w","w","w",".","n","e","w","s",".","w","w","w",".","o","r","g","/">> \o c, title |-> title \o <<" ","C","o","u","r","t"," ","r","u","l","i","n","g">>, snippet |-> <<"d","u","r","a","t","i","o","n">>]
          [] kind = 5 -> [link |-> <<"H","T","T","P",":","/","/","B",".","O","R","G","/">> \o c \o <<".","D","O","C","X","?","q","=","1">>, title |-> title \o <<" ","Y">>]
          [] OTHER -> [link |-> <<"/","/","l","a","w","i","n","s","i","d","e","r",".","c","o","m","/">> \o c, title |-> title \o <<" ","C","l","a","u","s","e">>, snippet |-> <<"C","a","l","i","f","o","r","n","i","a">>]

LongList(n, title) == [i \in 1..n |-> LongRecord(i, title)]

Min(a, b) == IF a < b THEN a ELSE b

PrimaryLists == ShortLists(PrimaryCatalog) \cup {LongList(n, <<"P">>) : n \in MaxLong..Min(MaxLong + 1, PrimaryNum)}
TargetedLists == ShortLists(TargetedCatalog) \cup {LongList(TargetedNum, <<"T">>)}

\* the messages of the backend's error dicts and str(e) of the exceptions
ErrorMessages == {<<"q","u","o","t","a"," ","e","x","c","e","e","d","e","d">>}
ExceptionMessages == {<<"C","o","n","n","e","c","t","i","o","n"," ","t","i","m","e","d"," ","o","u","t">>, <<"E","x","p","e","c","t","i","n","g"," ","v","a","l","u","e",":"," ","l","i","n","e"," ","1">>}

\* how a blocking search can end: a dict with the listing, a dict without one,
\* the backend's error dict, or an exception
Outcomes(lists) ==
    {[returned |-> [search_metadata |-> <<"S","u","c","c","e","s","s">>, organic_results |-> l]] : l \in lists}
    \cup {[returned |-> [search_metadata |-> <<"S","u","c","c","e","s","s">>]]}
    \cup {[returned |-> [error |-> m]] : m \in ErrorMessages}
    \cup {[raised |-> m] : m \in ExceptionMessages}

---------------------------------------------------------------------------
(* Pipeline Entry Point *)

\* nothing of the pipeline has run
Fresh ==
    /\ analysis = None
    /\ in_flight = {}
    /\ search_results = None
    /\ targeted_results = None
    /\ combined_results = None
    /\ response = None

Init ==
    /\ pc = "start"
    /\ Fresh
    /\ never_returns = {}
    /\ request = None
    /\ http_response = None
    /\ call = None
    /\ call_value = None

\* analyze_and_search_contracts up to the first await: the analysis, the
\* primary parameters, the primary search handed to a thread
Analyze ==
    /\ pc = "start"
    /\ \E an \in Analyses : analysis' = an
    /\ in_flight' = {"primary"}
    /\ pc' = "primary"
    /\ UNCHANGED <<search_results, targeted_results, combined_results, response, outside>>

\* variant: a search that is not answered is given up with an error value
PrimaryDone_times_out ==
    /\ pc = "primary"
    /\ "primary" \in in_flight
    /\ \E outcome \in Outcomes(PrimaryLists) \cup {[raised |-> <<"t","i","m","e","d"," ","o","u","t">>]} :
          LET r == run_search(outcome)
          IN  /\ ("primary" \in never_returns) <=> (outcome = [raised |-> <<"t","i","m","e","d"," ","o","u","t">>])
              /\ search_results' = r.returned
              /\ in_flight' = (in_flight \ {"primary"}) \cup {"targeted"}
              /\ pc' = "targeted"
              /\ UNCHANGED response
    /\ UNCHANGED <<analysis, targeted_results, combined_results, outside>>

\* the primary run_search completes; the targeted search is prepared and
\* handed to a thread
PrimaryDone ==
    /\ pc = "primary"
    /\ "primary" \in in_flight \ never_returns
    /\ \E outcome \in Outcomes(PrimaryLists) :
          LET r == run_search(outcome)
          IN  IF "raised" \in DOMAIN r
              THEN /\ response' = [raised |-> r.raised]
                   /\ in_flight' = in_flight \ {"primary"}
                   /\ pc' = "done"
                   /\ UNCHANGED search_results
              ELSE /\ search_results' = r.returned
                   /\ in_flight' = (in_flight \ {"primary"}) \cup {"targeted"}
                   /\ pc' = "targeted"
                   /\ UNCHANGED response
    /\ UNCHANGED <<analysis, targeted_results, combined_results, outside>>

\* variant: search_similar_contracts without its `if "error" in combined_results`
TargetedDone_no_error_check ==
    /\ pc = "targeted"
    /\ "targeted" \in in_flight \ never_returns
    /\ \E outcome \in Outcomes(TargetedLists) :
          LET r == run_search(outcome)
          IN  IF "raised" \in DOMAIN r
              THEN /\ response' = [raised |-> r.raised]
                   /\ UNCHANGED <<targeted_results, combined_results>>
              ELSE LET combined == combine_search_results(search_results, r.returned)
                       similar_contracts == [list |-> format_legal_results(combined, analysis)]
                   IN  /\ targeted_results' = r.returned
                       /\ combined_results' = combined
                       /\ response' = [returned |-> [analysis |-> analysis, similar_contracts |-> similar_contracts]]
    /\ in_flight' = in_flight \ {"targeted"}
    /\ pc' = "done"
    /\ UNCHANGED <<analysis, search_results, outside>>

\* variant: an empty merged listing reported as an error
TargetedDone_empty_is_error ==
    /\ pc = "targeted"
    /\ "targeted" \in in_flight \ never_returns
    /\ \E outcome \in Outcomes(TargetedLists) :
          LET r == run_search(outcome)
          IN  IF "raised" \in DOMAIN r
              THEN /\ response' = [raised |-> r.raised]
                   /\ UNCHANGED <<targeted_results, combined_results>>
              ELSE LET combined == combine_search_results(search_results, r.returned)
                       similar_contracts ==
                           IF "error" \in DOMAIN combined
                           THEN [error |-> combined.error]
                           ELSE IF Get(combined, "organic_results", <<>>) = <<>>
                           THEN [error |-> <<"N","o"," ","r","e","s","u","l","t","s"," ","f","o","u","n","d">>]
                           ELSE [list |-> format_legal_results(combined, analysis)]
                   IN  /\ targeted_results' = r.returned
                       /\ combined_results' = combined
                       /\ response' = [returned |-> [analysis |-> analysis, similar_contracts |-> similar_contracts]]
    /\ in_flight' = in_flight \ {"targeted"}
    /\ pc' = "done"
    /\ UNCHANGED <<analysis, search_results, outside>>

\* the targeted run_search completes; merge, error check, formatting, return.
\* similar_contracts holds a dict or a list: the list l is written [list |-> l]
TargetedDone ==
    /\ pc = "targeted"
    /\ "targeted" \in in_flight \ never_returns
    /\ \E outcome \in Outcomes(TargetedLists) :
          LET r == run_search(outcome)
          IN  IF "raised" \in DOMAIN r
              THEN /\ response' = [raised |-> r.raised]
                   /\ UNCHANGED <<targeted_results, combined_results>>
              ELSE LET combined == combine_search_results(search_results, r.returned)
                       similar_contracts ==
                           IF "error" \in DOMAIN combined
                           THEN [error |-> combined.error]
                           ELSE [list |-> format_legal_results(combined, analysis)]
                   IN  /\ targeted_results' = r.returned
                       /\ combined_results' = combined
                       /\ response' = [returned |-> [analysis |-> analysis, similar_contracts |-> similar_contracts]]
    /\ in_flight' = in_flight \ {"targeted"}
    /\ pc' = "done"
    /\ UNCHANGED <<analysis, search_results, outside>>

Next == Analyze \/ PrimaryDone \/ TargetedDone

Spec == Init /\ [][Next]_vars

\* The same pipeline against a backend that may leave a search unanswered:
\* run_search awaits asyncio.to_thread without a timeout.  A search that is
\* answered is delivered to the coroutine, and the coroutine runs on.
LiveInit ==
    /\ pc = "start"
    /\ Fresh
    /\ never_returns \in SUBSET {"primary", "targeted"}
    /\ request = None
    /\ http_response = None
    /\ call = None
    /\ call_value = None

\* the guards of Analyze, PrimaryDone and TargetedDone: the coroutine is not
\* suspended on an unanswered search
Runnable ==
    \/ pc = "start"
    \/ pc = "primary" /\ "primary" \in in_flight \ never_returns
    \/ pc = "targeted" /\ "targeted" \in in_flight \ never_returns

\* the event loop resumes a runnable coroutine, which moves to its next await
\* or to its return
Resume ==
    /\ Runnable
    /\ pc' \in {"primary", "targeted", "done"} \ {pc}

LiveSpec ==
    /\ LiveInit
    /\ [][Next]_vars
    /\ WF_pc(Resume)

---------------------------------------------------------------------------
(* The HTTP endpoint POST /api/legal/analyze of api_wrapper.py *)

MinChars == 50

Whitespace == {" ", "\t", "\n", "\r"}

RECURSIVE LStrip(_)
LStrip(s) == IF s # <<>> /\ Head(s) \in Whitespace THEN LStrip(Tail(s)) ELSE s

RECURSIVE RStrip(_)
RStrip(s) == IF s # <<>> /\ s[Len(s)] \in Whitespace THEN RStrip(SubSeq(s, 1, Len(s) - 1)) ELSE s

\* s.strip()
Strip(s) == RStrip(LStrip(s))

\* c * n
Rep(c, n) == [i \in 1..n |-> c]

\* contract texts of requests: up to MinChars characters, bare or padded with whitespace
RequestTexts ==
    {pad[1] \o Rep("x", n) \o pad[2] : n \in 0..MinChars, pad \in {<< <<>>, <<>> >>, << <<" ">>, <<"\n">> >>}}

TooShortDetail == <<"C","o","n","t","r","a","c","t"," ","t","e","x","t"," ","m","u","s","t"," ","b","e"," ","a","t"," ","l","e","a","s","t"," ","5","0"," ","c","h","a","r","a","c","t","e","r","s"," ","l","o","n","g">>

\* str(e) of the HTTPException raised by the validation: "400: <detail>" where
\* the installed Starlette defines HTTPException.__str__, "" where it does not
StrOfHTTPException == {<<"4","0","0",":"," ">> \o TooShortDetail, <<>>}
\* str(e) of the pydantic error for a similar_contracts that is no list
StrOfValidationError == <<"1"," ","v","a","l","i","d","a","t","i","o","n"," ","e","r","r","o","r"," ","f","o","r"," ","C","o","n","t","r","a","c","t","A","n","a","l","y","s","i","s","R","e","s","p","o","n","s","e">>

ApiInit ==
    /\ pc = "request"
    /\ request \in {[contract_text |-> t] : t \in RequestTexts}
    /\ Fresh
    /\ never_returns = {}
    /\ http_response = None
    /\ call = None
    /\ call_value = None

\* the endpoint up to its await: the validation inside the try, whose
\* HTTPException the `except Exception` of the same try catches and re-raises
ApiValidate ==
    /\ pc = "request"
    /\ IF request.contract_text = <<>> \/ Len(Strip(request.contract_text)) < MinChars
       THEN /\ \E e \in StrOfHTTPException :
                  http_response' = [status_code |-> 500, detail |-> <<"A","n","a","l","y","s","i","s"," ","f","a","i","l","e","d",":"," ">> \o e]
            /\ pc' = "responded"
       ELSE /\ pc' = "start"
            /\ UNCHANGED http_response
    /\ UNCHANGED <<analysis, in_flight, search_results, targeted_results, combined_results, response, never_returns, request, call, call_value>>

\* the endpoint after its await: ContractAnalysisResponse(**result)
ApiRespond ==
    /\ pc = "done"
    /\ request # None
    /\ http_response' =
          IF "raised" \in DOMAIN response
          THEN [status_code |-> 500, detail |-> <<"A","n","a","l","y","s","i","s"," ","f","a","i","l","e","d",":"," ">> \o response.raised]
          ELSE IF "list" \in DOMAIN response.returned.similar_contracts
          THEN [status_code |-> 200,
                body |-> [analysis |-> response.returned.analysis,
                          similar_contracts |-> response.returned.similar_contracts.list]]
          ELSE [status_code |-> 500, detail |-> <<"A","n","a","l","y","s","i","s"," ","f","a","i","l","e","d",":"," ">> \o StrOfValidationError]
    /\ pc' = "responded"
    /\ UNCHANGED <<analysis, in_flight, search_results, targeted_results, combined_results, response, never_returns, request, call, call_value>>

ApiNext == ApiValidate \/ Analyze \/ PrimaryDone \/ TargetedDone \/ ApiRespond

SpecApi == ApiInit /\ [][ApiNext]_vars

---------------------------------------------------------------------------
(* extract_parties: re.findall of three patterns, written out.  A text and its
   lower-cased copy (re.IGNORECASE) are walked by position; positions count
   from 1 and a range ends before its `to`. *)

\* whether the lower-cased text holds the word kw at position p
At(lt, p, kw) == p + Len(kw) - 1 <= Len(lt) /\ \A j \in 1..Len(kw) : lt[p + j - 1] = kw[j]

RECURSIVE AfterAlternative(_, _, _)
\* (?:a|b|...) at p: the position after the first alternative found there, 0
\* when none is (no two alternatives of one pattern can both stand at p)
AfterAlternative(lt, p, alts) ==
    IF alts = <<>> THEN 0
    ELSE IF At(lt, p, Head(alts)) THEN p + Len(Head(alts))
    ELSE AfterAlternative(lt, p, Tail(alts))

RECURSIVE SkipSpace(_, _)
\* \s* from p, taken whole: the position after the run of whitespace
SkipSpace(t, p) == IF p <= Len(t) /\ t[p] \in Whitespace THEN SkipSpace(t, p + 1) ELSE p

RECURSIVE SkipNot(_, _, _)
\* [^c]* from p, taken whole: the position of the next c, or the end of the text
SkipNot(t, p, c) == IF p <= Len(t) /\ t[p] # c THEN SkipNot(t, p + 1, c) ELSE p

\* \s+([^c]+) or \s*([^c]+), s being the end of the whitespace: the group
\* starts at s, or, when s holds c or the text ends there, the whitespace
\* gives back its last character to the group
GroupStart(t, s, c) == IF s <= Len(t) /\ t[s] # c THEN s ELSE s - 1

\* \s+(?:and|&)\s+([^,]+) from y: the range of the second group
SecondParty(t, lt, y) ==
    LET word  == SkipSpace(t, y)
        space == AfterAlternative(lt, word, <<<<"a","n","d">>, <<"&">>>>)
        s     == SkipSpace(t, space)
        start == GroupStart(t, s, ",")
    IN  IF word = y \/ space = 0 \/ s = space \/ start = space THEN None
        ELSE [from |-> start, to |-> SkipNot(t, start, ",")]

\* \s+([^,]+),?\s+(?:and|&)\s+([^,]+) from e, the end of the keyword: the
\* first group is as long as the rest of the pattern allows, and ends either
\* at the next comma (which `,?` takes) or at a whitespace before and / &
BetweenFrom(t, lt, e) ==
    LET w     == SkipSpace(t, e)
        comma == SkipNot(t, e, ",")
        After(x) == IF x = comma THEN comma + 1 ELSE x
        ends  == {x \in (e + 2)..comma :
                    /\ IF x = comma THEN comma <= Len(t) ELSE t[x] \in Whitespace
                    /\ SecondParty(t, lt, After(x)) # None}
    IN  IF w = e \/ ends = {} THEN None
        ELSE LET x      == CHOOSE x \in ends : \A other \in ends : other <= x
                 start  == Min(w, x - 1)
                 second == SecondParty(t, lt, After(x))
             IN  [groups |-> <<SubSeq(t, start, x - 1), SubSeq(t, second.from, second.to - 1)>>,
                  end |-> second.to]

\* (?:\s+named)?\s*:\s*([^.]+) from e, the end of the keyword
LabelledFrom(t, lt, e) ==
    LET w     == SkipSpace(t, e)
        named == IF w > e /\ At(lt, w, <<"n","a","m","e","d">>) THEN w + 5 ELSE e
        colon == SkipSpace(t, named)
        start == GroupStart(t, SkipSpace(t, colon + 1), ".")
    IN  IF colon > Len(t) \/ t[colon] # ":" \/ start = colon THEN None
        ELSE [groups |-> <<SubSeq(t, start, SkipNot(t, start, ".") - 1)>>,
              end |-> SkipNot(t, start, ".")]

party_patterns ==
    << [keywords |-> <<<<"b","e","t","w","e","e","n">>, <<"b","y"," ","a","n","d"," ","b","e","t","w","e","e","n">>>>, rest |-> "between"],
       [keywords |-> <<<<"p","a","r","t","y">>, <<"p","a","r","t","i","e","s">>>>, rest |-> "labelled"],
       [keywords |-> <<<<"c","o","n","t","r","a","c","t","o","r">>, <<"c","l","i","e","n","t">>, <<"c","o","m","p","a","n","y">>, <<"c","o","r","p","o","r","a","t","i","o","n">>, <<"i","n","d","i","v","i","d","u","a","l">>>>, rest |-> "labelled"] >>

\* the match of the pattern that starts at p, None when there is none
MatchAt(pattern, t, lt, p) ==
    LET e == AfterAlternative(lt, p, pattern.keywords)
    IN  IF e = 0 THEN None
        ELSE IF pattern.rest = "between" THEN BetweenFrom(t, lt, e)
        ELSE LabelledFrom(t, lt, e)

RECURSIVE FindAll(_, _, _, _)
\* re.findall(pattern, text, re.IGNORECASE) from pos: the groups of the
\* leftmost match, then those of the matches after its end
FindAll(pattern, t, lt, pos) ==
    LET starts == {p \in pos..Len(t) : MatchAt(pattern, t, lt, p) # None}
    IN  IF starts = {} THEN <<>>
        ELSE LET p  == CHOOSE p \in starts : \A q \in starts : p <= q
                 mt == MatchAt(pattern, t, lt, p)
             IN  <<mt.groups>> \o FindAll(pattern, t, lt, mt.end)

RECURSIVE Flatten(_)
Flatten(seqs) == IF seqs = <<>> THEN <<>> ELSE Head(seqs) \o Flatten(Tail(seqs))

\* the list `parties` after the loop over the patterns: every group of every
\* match, stripped
Candidates(text) ==
    LET groups == Flatten([k \in 1..Len(party_patterns) |-> Flatten(FindAll(party_patterns[k], text, Lower(text), 1))])
    IN  [i \in 1..Len(groups) |-> Strip(groups[i])]

PartiesNotSpecified == <<"P","a","r","t","i","e","s"," ","n","o","t"," ","s","p","e","c","i","f","i","e","d">>

\* variant: the list cut to three before the length filter
cleaned_parties_truncated_first(parties) ==
    SelectSeq(Take(parties, 3), LAMBDA p : Len(p) > 2 /\ Len(p) < 100)

cleaned_parties(parties) ==
    SelectSeq(parties, LAMBDA p : Len(p) > 2 /\ Len(p) < 100)

extract_parties(text) ==
    LET cleaned == cleaned_parties(Candidates(text))
    IN  IF cleaned # <<>> THEN Take(cleaned, 3) ELSE <<PartiesNotSpecified>>

---------------------------------------------------------------------------
(* The functions of the pipeline applied on their own *)

MaxWords == 2
MaxTerms == 2

\* nothing but the call is in use
OnlyCall ==
    /\ Fresh
    /\ never_returns = {}
    /\ request = None
    /\ http_response = None
    /\ call_value = None

RECURSIVE Join(_)
\* " ".join(words)
Join(words) ==
    IF words = <<>> THEN <<>>
    ELSE IF Len(words) = 1 THEN words[1]
    ELSE words[1] \o <<" ">> \o Join(Tail(words))

\* words of contract texts: keywords, keywords inside other words, other words
ContractWords == {<<"E","m","p","l","o","y","e","e">>, <<"s","a","l","a","r","y">>, <<"p","a","r","e","n","t">>, <<"s","e","r","v","i","c","e","s">>, <<"w","h","o","l","e","s","a","l","e">>, <<"L","a","n","d","l","o","r","d">>, <<"s","e","c","r","e","t">>, <<"c","o","p","y","r","i","g","h","t">>}
ContractTexts == {Join(ws) : ws \in UNION {[1..n -> ContractWords] : n \in 0..MaxWords}}

ContractTypeInit ==
    /\ pc = "call"
    /\ call \in {[fn |-> "determine_contract_type", text |-> t] : t \in ContractTexts}
    /\ OnlyCall

CallContractType ==
    /\ pc = "call"
    /\ call.fn = "determine_contract_type"
    /\ call_value' = determine_contract_type(call.text)
    /\ pc' = "called"
    /\ UNCHANGED <<analysis, in_flight, search_results, targeted_results, combined_results, response, never_returns, request, http_response, call>>

SpecContractType == ContractTypeInit /\ [][CallContractType]_vars

\* raw records and analyses for calculate_relevance
RelevanceResults ==
    {[title |-> t, snippet |-> s] : t \in {<<"E","m","p","l","o","y","m","e","n","t"," ","A","g","r","e","e","m","e","n","t">>, <<"G","e","n","e","r","a","l">>}, s \in {<<"C","o","n","t","r","a","c","t"," ","s","i","g","n","e","d"," ","i","n"," ","C","a","l","i","f","o","r","n","i","a"," ","f","o","r"," ","t","w","o"," ","y","e","a","r","s">>, <<"l","o","c","a","t","i","o","n"," ","n","o","t"," ","s","p","e","c","i","f","i","e","d">>}}
    \cup {[title |-> t] : t \in {<<"E","m","p","l","o","y","m","e","n","t"," ","A","g","r","e","e","m","e","n","t">>, <<"G","e","n","e","r","a","l">>}}
    \cup {[snippet |-> s] : s \in {<<"C","o","n","t","r","a","c","t"," ","s","i","g","n","e","d"," ","i","n"," ","C","a","l","i","f","o","r","n","i","a"," ","f","o","r"," ","t","w","o"," ","y","e","a","r","s">>, <<"l","o","c","a","t","i","o","n"," ","n","o","t"," ","s","p","e","c","i","f","i","e","d">>}}
    \cup {[link |-> <<"h","t","t","p","s",":","/","/","e","x","a","m","p","l","e",".","c","o","m","/","a","b","o","u","t">>]}

KeyTerms == {<<"T","w","o"," ","Y","e","a","r","s">>, <<"s","a","l","a","r","y">>, <<"c","o","n","t","r","a","c","t">>}
KeyTermLists == UNION {[1..n -> KeyTerms] : n \in 0..MaxTerms}

RelevanceAnalyses ==
    {[contract_type |-> c, location |-> l, key_terms |-> k] :
        c \in {<<"e","m","p","l","o","y","m","e","n","t">>, GeneralContract}, l \in {<<"C","a","l","i","f","o","r","n","i","a">>, <<"L","o","c","a","t","i","o","n"," ","n","o","t"," ","s","p","e","c","i","f","i","e","d">>}, k \in KeyTermLists}
    \cup {[contract_type |-> c, location |-> l] : c \in {<<"e","m","p","l","o","y","m","e","n","t">>, GeneralContract}, l \in {<<"C","a","l","i","f","o","r","n","i","a">>, <<"L","o","c","a","t","i","o","n"," ","n","o","t"," ","s","p","e","c","i","f","i","e","d">>}}

RelevanceInit ==
    /\ pc = "call"
    /\ call \in {[fn |-> "calculate_relevance", result |-> r, analysis |-> an] : r \in RelevanceResults, an \in RelevanceAnalyses}
    /\ OnlyCall

CallRelevance ==
    /\ pc = "call"
    /\ call.fn = "calculate_relevance"
    /\ call_value' = calculate_relevance(call.result, call.analysis)
    /\ pc' = "called"
    /\ UNCHANGED <<analysis, in_flight, search_results, targeted_results, combined_results, response, never_returns, request, http_response, call>>

SpecRelevance == RelevanceInit /\ [][CallRelevance]_vars


MaxExtra == 1

\* party names: too short, the shortest kept, the longest kept (followed by
\* spaces), too long, and an ordinary one
PartyNames == {Rep("a", 2), Rep("b", 3), Rep("c", 99) \o <<" "," ">>, Rep("d", 100), <<"A","c","m","e"," ","C","o","r","p">>}

BetweenClauses ==
    {<<>>}
    \cup {<<"T","h","i","s"," ","A","g","r","e","e","m","e","n","t"," ","i","s"," ","m","a","d","e"," ","b","e","t","w","e","e","n"," ">> \o n \o <<","," ","a","n","d"," ">> \o m \o <<","," ">> : n \in PartyNames, m \in {Rep("a", 2), Rep("b", 3)}}
    \cup {<<"B","Y"," ","A","N","D"," ","B","E","T","W","E","E","N"," ">> \o n \o <<" ","&"," ">> \o Rep("b", 3) \o <<","," ">> : n \in {Rep("d", 100), <<"A","c","m","e"," ","C","o","r","p">>}}
    \cup {<<"b","e","t","w","e","e","n"," ">> \o <<"A","c","m","e"," ","C","o","r","p">> \o <<" ","a","n","d"," ">> \o m \o <<" ">> : m \in {Rep("a", 2), Rep("b", 3)}}

PartyClauses ==
    {<<>>, <<"P","a","r","t","y",":"," ","."," ">>, <<"P","a","r","t","i","e","s"," ","n","a","m","e","d"," ",":"," ">> \o Rep("b", 3) \o <<"."," ">>}
    \cup {<<"P","a","r","t","y",":"," ">> \o n \o <<"."," ">> : n \in {Rep("a", 2), Rep("c", 99) \o <<" "," ">>, <<"A","c","m","e"," ","C","o","r","p">>}}

ClientClauses == {<<>>} \cup {<<"C","l","i","e","n","t",":"," ">> \o n \o <<"."," ">> : n \in {Rep("b", 3), Rep("d", 100)}}

ExtraClauses ==
    {Flatten([i \in 1..Len(names) |-> <<"C","o","m","p","a","n","y",":"," ">> \o names[i] \o <<"."," ">>]) :
        names \in UNION {[1..k -> {Rep("b", 3), Rep("d", 100)}] : k \in 0..MaxExtra}}

PartyTexts == {b \o p \o c \o x : b \in BetweenClauses, p \in PartyClauses, c \in ClientClauses, x \in ExtraClauses}

PartiesInit ==
    /\ pc = "call"
    /\ call \in {[fn |-> "extract_parties", text |-> t] : t \in PartyTexts}
    /\ OnlyCall

CallParties ==
    /\ pc = "call"
    /\ call.fn = "extract_parties"
    /\ call_value' = extract_parties(call.text)
    /\ pc' = "called"
    /\ UNCHANGED <<analysis, in_flight, search_results, targeted_results, combined_results, response, never_returns, request, http_response, call>>

SpecParties == PartiesInit /\ [][CallParties]_vars

---------------------------------------------------------------------------
(* Vocabulary of the properties *)

Failed(d) == "error" \in DOMAIN d
Organic(d) == Get(d, "organic_results", <<>>)
UrlOf(r) == Get(r, "link", <<>>)
Range(seq) == {seq[i] : i \in 1..Len(seq)}
Urls(seq) == {UrlOf(seq[i]) : i \in 1..Len(seq)}

\* analyze_and_search_contracts has returned a payload
Returned == pc = "done" /\ "returned" \in DOMAIN response
\* ... after both searches were merged
Merged == Returned /\ combined_results # None
\* ... and the merge was of two successful result sets
MergedBoth == Merged /\ ~Failed(search_results) /\ ~Failed(targeted_results)
\* ... and similar_contracts is a list
Listed == Merged /\ "list" \in DOMAIN response.returned.similar_contracts
SimilarContracts == response.returned.similar_contracts.list

\* the positions of seq whose URL occurs at no earlier position
FirstSeenAt(seq) == {i \in 1..Len(seq) : \A j \in 1..(i - 1) : UrlOf(seq[j]) # UrlOf(seq[i])}

RECURSIVE Pick(_, _, _)
\* the elements of seq at the positions in keep, from position i on, in order
Pick(seq, keep, i) ==
    IF i > Len(seq) THEN <<>>
    ELSE (IF i \in keep THEN <<seq[i]>> ELSE <<>>) \o Pick(seq, keep, i + 1)

FirstSeen(seq) == Pick(seq, FirstSeenAt(seq), 1)

---------------------------------------------------------------------------
\* C1: for two successful result sets the merged sequence is the targeted
\* results followed by the primary results, each kept only if its URL has not
\* been seen earlier; so it opens with the targeted survivors, in input order.
C1_MergeKeepsFirstSeenTargetedFirst ==
    MergedBoth =>
        LET targeted == Organic(targeted_results)
            primary == Organic(search_results)
            merged == Organic(combined_results)
            kept == FirstSeen(targeted)
        IN  /\ merged = FirstSeen(targeted \o primary)
            /\ Len(kept) <= Len(merged)
            /\ SubSeq(merged, 1, Len(kept)) = kept
            /\ \A i \in (Len(kept) + 1)..Len(merged) : merged[i] \in Range(primary) /\ UrlOf(merged[i]) \notin Urls(targeted)

\* a merge where both sets contribute and a primary record is dropped as a duplicate
C1_Witness ==
    /\ MergedBoth
    /\ Len(FirstSeen(Organic(targeted_results))) >= 1
    /\ Len(Organic(combined_results)) > Len(FirstSeen(Organic(targeted_results)))
    /\ Len(Organic(combined_results)) < Len(Organic(targeted_results)) + Len(Organic(search_results))
    /\ Urls(Organic(targeted_results)) \cap Urls(Organic(search_results)) # {}

\* C2: whenever the merge does not produce an error, the merged sequence holds
\* no URL twice: the number of distinct URLs equals its length.
C2_MergedUrlsDistinct ==
    (Merged /\ ~Failed(combined_results)) =>
        Cardinality(Urls(Organic(combined_results))) = Len(Organic(combined_results))

\* C3: a URL listed by both the primary and the targeted set has exactly one
\* record in the merged output, and it is the targeted set's record.
C3_CollisionKeepsTargetedRecord ==
    MergedBoth =>
        LET targeted == Organic(targeted_results)
            primary == Organic(search_results)
            merged == Organic(combined_results)
        IN  \A u \in Urls(targeted) \cap Urls(primary) :
                LET at == {i \in 1..Len(merged) : UrlOf(merged[i]) = u}
                    first == CHOOSE i \in 1..Len(targeted) : UrlOf(targeted[i]) = u /\ \A j \in 1..(i - 1) : UrlOf(targeted[j]) # u
                IN  /\ Cardinality(at) = 1
                    /\ \A i \in at : merged[i] = targeted[first]

\* a URL on both sides whose primary record differs from the targeted one
C3_Witness ==
    /\ MergedBoth
    /\ \E i \in 1..Len(Organic(targeted_results)) : \E j \in 1..Len(Organic(search_results)) :
          /\ UrlOf(Organic(targeted_results)[i]) = UrlOf(Organic(search_results)[j])
          /\ Organic(targeted_results)[i] # Organic(search_results)[j]
          /\ Organic(targeted_results)[i] \in Range(Organic(combined_results))
          /\ Organic(search_results)[j] \notin Range(Organic(combined_results))

\* C4: when the primary search returned an error, whatever the targeted one
\* returned, the merge is the primary's error and the payload carries the
\* analysis and {"error": message} in place of the list; nothing is formatted.
C4_PrimaryErrorPropagates ==
    (pc = "done" /\ search_results # None /\ Failed(search_results)) =>
        /\ Returned
        /\ combined_results = search_results
        /\ response.returned.analysis = analysis
        /\ analysis \in Analyses
        /\ response.returned.similar_contracts = [error |-> search_results.error]

\* the primary failed while the targeted search listed results
C4_Witness ==
    /\ Merged
    /\ Failed(search_results)
    /\ ~Failed(targeted_results)
    /\ Organic(targeted_results) # <<>>
    /\ response.returned.similar_contracts = [error |-> search_results.error]

\* C5: when only the targeted search failed, no error reaches the payload,
\* the targeted message is dropped and similar_contracts is the formatting
\* of the primary results alone.
C5_TargetedErrorFallsBackToPrimary ==
    (Merged /\ ~Failed(search_results) /\ Failed(targeted_results)) =>
        /\ combined_results = search_results
        /\ Listed
        /\ SimilarContracts = format_legal_results(search_results, analysis)
        /\ \A i \in 1..Len(SimilarContracts) : SimilarContracts[i].url \in Urls(Organic(search_results))
        /\ Len(SimilarContracts) = Min(Len(Organic(search_results)), MaxResults)

\* the targeted search failed and the primary listing was formatted
C5_Witness ==
    /\ Listed
    /\ ~Failed(search_results)
    /\ Failed(targeted_results)
    /\ Len(SimilarContracts) >= 2

\* C6 as stated: a primary error with a valid targeted list makes the merge
\* return the targeted list unchanged, and the payload carries no error.
C6_FallbackToTargeted ==
    (Merged /\ Failed(search_results) /\ ~Failed(targeted_results)) =>
        /\ Organic(combined_results) = Organic(targeted_results)
        /\ ~Failed(combined_results)
        /\ Listed

\* C6, amended: a primary error with a valid targeted list makes the merge
\* return the primary's error dict, without any of the targeted records, and
\* the payload carries that error in place of the list.
C6_PrimaryErrorDiscardsTargeted ==
    (Merged /\ Failed(search_results) /\ ~Failed(targeted_results)) =>
        /\ Failed(combined_results)
        /\ combined_results.error = search_results.error
        /\ Organic(combined_results) = <<>>
        /\ ~Listed
        /\ Failed(response.returned.similar_contracts)
        /\ response.returned.similar_contracts.error = search_results.error

\* the backend's own error dict for the primary, a non-empty targeted listing
C6_Witness ==
    /\ Merged
    /\ Failed(search_results)
    /\ search_results.error \in ErrorMessages
    /\ ~Failed(targeted_results)
    /\ Len(Organic(targeted_results)) >= 2
    /\ ~Listed

\* C7: an exception of the blocking search is returned by run_search as
\* {"error": str(e)}, never raised, so analyze_and_search_contracts ends with
\* a payload, not an exception, however the two searches ended.
C7_SearchFailureIsAValue ==
    /\ \A m \in ExceptionMessages : run_search([raised |-> m]) = [returned |-> [error |-> m]]
    /\ pc = "done" => /\ Returned
                      /\ DOMAIN response.returned = {"analysis", "similar_contracts"}
    /\ pc = "targeted" => response = None

\* both blocking searches raised, and a payload was returned
C7_Witness ==
    /\ Merged
    /\ Failed(search_results)
    /\ search_results.error \in ExceptionMessages
    /\ Failed(targeted_results)
    /\ targeted_results.error \in ExceptionMessages
    /\ targeted_results.error # search_results.error

\* is_direct_document_link on a raw record, with prioritize_document_links' defaults
IsDirect(r) == is_direct_document_link(UrlOf(r), Get(r, "title", <<>>))
IsWebPage(r) == ~IsDirect(r)
Count(seq, r) == Cardinality({i \in 1..Len(seq) : seq[i] = r})

\* C8: similar_contracts has at most 12 records: one for each of the first 12
\* results of the prioritized sequence, in that order; the cut to 12 comes
\* after prioritization.
C8_FirstTwelveOfPrioritized ==
    Listed =>
        LET prioritized == prioritize_document_links(Organic(combined_results))
            n == Min(Len(prioritized), MaxResults)
        IN  /\ Len(SimilarContracts) <= MaxResults
            /\ Len(SimilarContracts) = n
            /\ \A i \in 1..n :
                  /\ SimilarContracts[i].url = UrlOf(prioritized[i])
                  /\ SimilarContracts[i].title = Get(prioritized[i], "title", <<"U","n","t","i","t","l","e","d"," ","D","o","c","u","m","e","n","t">>)
                  /\ SimilarContracts[i].snippet = Get(prioritized[i], "snippet", <<"N","o"," ","d","e","s","c","r","i","p","t","i","o","n"," ","a","v","a","i","l","a","b","l","e">>)

\* more than 12 merged results, with a direct document past the 12th
C8_Witness ==
    /\ Listed
    /\ Len(Organic(combined_results)) > MaxResults
    /\ \E i \in (MaxResults + 1)..Len(Organic(combined_results)) : IsDirect(Organic(combined_results)[i])
    /\ Len(SimilarContracts) = MaxResults

\* C9: prioritize_document_links returns a permutation of its input with
\* every direct document before every web page, each group in input order.
C9_PrioritizeIsStablePartition ==
    (Merged /\ ~Failed(combined_results)) =>
        LET input == Organic(combined_results)
            output == prioritize_document_links(input)
            direct == [i \in 1..Len(output) |-> IsDirect(output[i])]
        IN  /\ Len(output) = Len(input)
            /\ \A r \in Range(input) \cup Range(output) : Count(output, r) = Count(input, r)
            /\ \A i \in 1..Len(output) : \A j \in (i + 1)..Len(output) : direct[j] => direct[i]
            /\ SelectSeq(output, IsDirect) = SelectSeq(input, IsDirect)
            /\ SelectSeq(output, IsWebPage) = SelectSeq(input, IsWebPage)

\* an input with a web page ahead of a direct document and two of each
C9_Witness ==
    /\ Listed
    /\ LET input == Organic(combined_results)
       IN  /\ \E i \in 1..Len(input) : \E j \in (i + 1)..Len(input) : IsWebPage(input[i]) /\ IsDirect(input[j])
           /\ Len(SelectSeq(input, IsDirect)) >= 2
           /\ Len(SelectSeq(input, IsWebPage)) >= 2
           /\ prioritize_document_links(input) # input

\* the ordered checks of determine_link_type, on a URL and a title
ExtensionCheck(url) == \E ext \in {<<".","p","d","f">>, <<".","d","o","c">>, <<".","d","o","c","x">>} : Contains(Lower(url), ext)
TemplateCheck(url, title) == \E word \in {<<"t","e","m","p","l","a","t","e">>, <<"f","o","r","m">>, <<"s","a","m","p","l","e">>} : Contains(Lower(url), word) \/ Contains(Lower(title), word)
DatabaseCheck(url) == \E site \in {<<"s","e","c",".","g","o","v">>, <<"l","a","w","i","n","s","i","d","e","r",".","c","o","m">>, <<"c","o","n","t","r","a","c","t","s","t","a","n","d","a","r","d","s",".","c","o","m">>} : Contains(Lower(url), site)
CourtCheck(url, title) == Contains(Lower(url), <<"c","o","u","r","t","s",".","g","o","v">>) \/ Contains(Lower(title), <<"c","o","u","r","t">>)

\* C10: the link type is the label of the earliest check that holds among
\* file extension, template keyword, legal-database domain, court, default;
\* so a URL with a document file extension is a "Direct Document", whatever
\* else it matches, and its description is the Direct Document marker
\* followed by the title.
C10_LinkTypeFirstMatchWins ==
    Listed =>
        \A i \in 1..Len(SimilarContracts) :
            LET doc == SimilarContracts[i]
                checks == <<ExtensionCheck(doc.url), TemplateCheck(doc.url, doc.title), DatabaseCheck(doc.url), CourtCheck(doc.url, doc.title), TRUE>>
                labels == <<DirectDocument, TemplateForm, LegalDatabase, CourtDocument, LegalResource>>
                first == CHOOSE k \in 1..Len(checks) : checks[k] /\ \A j \in 1..(k - 1) : ~checks[j]
            IN  /\ doc.link_type = labels[first]
                /\ checks[1] => /\ doc.link_type = DirectDocument
                                /\ StartsWith(doc.clickable_description, DirectDownloadMarker)
                                /\ doc.clickable_description = DirectDownloadMarker \o doc.title

\* a formatted record whose URL and title satisfy all four checks
C10_Witness ==
    /\ Listed
    /\ \E i \in 1..Len(SimilarContracts) :
          LET doc == SimilarContracts[i]
          IN  /\ ExtensionCheck(doc.url)
              /\ TemplateCheck(doc.url, doc.title)
              /\ DatabaseCheck(doc.url)
              /\ CourtCheck(doc.url, doc.title)
              /\ doc.link_type = DirectDocument

---------------------------------------------------------------------------
\* the text calculate_relevance searches: title, a space, snippet, lower-cased
SearchedText(r) == Lower(Get(r, "title", <<>>) \o <<" ">> \o Get(r, "snippet", <<>>))
OneIf(hit) == IF hit THEN 1 ELSE 0

\* the rubric: 3 for the contract type, 2 for the location, 1 for each key term
Rubric(r, an) ==
    LET text == SearchedText(r)
        terms == Get(an, "key_terms", <<>>)
    IN  3 * OneIf(Contains(text, an.contract_type))
        + 2 * OneIf(Contains(text, Lower(an.location)))
        + Cardinality({k \in 1..Len(terms) : Contains(text, Lower(terms[k]))})

\* C11: the score is 3 if the contract type occurs in the lower-cased title
\* and snippet, plus 2 if the lower-cased location occurs in it, plus 1 for
\* each key term that occurs in it; the tier is "High" iff score >= 4,
\* "Medium" iff 2 <= score < 4, "Low" otherwise.
C11_RelevanceFollowsRubric ==
    (pc = "called" /\ call.fn = "calculate_relevance") =>
        LET score == Rubric(call.result, call.analysis)
        IN  /\ relevance_points(call.result, call.analysis) = score
            /\ (call_value = <<"H","i","g","h">>) <=> (score >= 4)
            /\ (call_value = <<"M","e","d","i","u","m">>) <=> (2 <= score /\ score < 4)
            /\ (call_value = <<"L","o","w">>) <=> (score < 2)
            /\ call_value \in {<<"H","i","g","h">>, <<"M","e","d","i","u","m">>, <<"L","o","w">>}

\* a score of exactly 4, made of the contract type and one key term
C11_Witness ==
    /\ pc = "called"
    /\ call.fn = "calculate_relevance"
    /\ Rubric(call.result, call.analysis) = 4
    /\ Contains(SearchedText(call.result), call.analysis.contract_type)
    /\ ~Contains(SearchedText(call.result), Lower(call.analysis.location))
    /\ call_value = <<"H","i","g","h">>

\* the analysis with one more key term, put at position k of key_terms
WithKeyTerm(an, term, k) ==
    LET terms == Get(an, "key_terms", <<>>)
        more == SubSeq(terms, 1, k - 1) \o <<term>> \o SubSeq(terms, k, Len(terms))
    IN  [f \in DOMAIN an \cup {"key_terms"} |-> IF f = "key_terms" THEN more ELSE an[f]]

TierRank(tier) == IF tier = <<"H","i","g","h">> THEN 2 ELSE IF tier = <<"M","e","d","i","u","m">> THEN 1 ELSE 0

\* C12: for a fixed result and otherwise identical analysis, one more key
\* term never lowers the score, so never lowers the tier in Low < Medium < High.
C12_OneMoreKeyTermNeverLowers ==
    (pc = "called" /\ call.fn = "calculate_relevance") =>
        \A term \in KeyTerms : \A k \in 1..(Len(Get(call.analysis, "key_terms", <<>>)) + 1) :
            LET more == WithKeyTerm(call.analysis, term, k)
            IN  /\ relevance_points(call.result, more) >= relevance_points(call.result, call.analysis)
                /\ TierRank(calculate_relevance(call.result, more)) >= TierRank(call_value)

\* one more key term that occurs lifts the tier, one that does not leaves it
C12_Witness ==
    /\ pc = "called"
    /\ call.fn = "calculate_relevance"
    /\ \E term \in KeyTerms : TierRank(calculate_relevance(call.result, WithKeyTerm(call.analysis, term, 1))) > TierRank(call_value)
    /\ \E term \in KeyTerms : relevance_points(call.result, WithKeyTerm(call.analysis, term, 1)) = relevance_points(call.result, call.analysis)

---------------------------------------------------------------------------
\* the number of keywords of category i that occur in the lower-cased text
Hits(i, text) == Cardinality({k \in 1..Len(contract_types[i].keywords) : Contains(Lower(text), contract_types[i].keywords[k])})
TypeAt(i) == contract_types[i].type
TableOrder == <<<<"e","m","p","l","o","y","m","e","n","t">>, <<"l","e","a","s","e">>, <<"p","u","r","c","h","a","s","e">>, <<"s","e","r","v","i","c","e">>, <<"p","a","r","t","n","e","r","s","h","i","p">>, <<"n","d","a">>, <<"l","i","c","e","n","s","e">>>>

\* C13: determine_contract_type returns a category whose hit count is at least
\* that of each other category, the first such in the order employment,
\* lease, purchase, service, partnership, nda, license; and it returns
\* "general contract" exactly when every category has zero hits.
C13_ContractTypeIsFirstMaximum ==
    (pc = "called" /\ call.fn = "determine_contract_type") =>
        LET n == Len(contract_types)
            nohit == \A i \in 1..n : Hits(i, call.text) = 0
        IN  /\ [i \in 1..n |-> TypeAt(i)] = TableOrder
            /\ (call_value = GeneralContract) <=> nohit
            /\ ~nohit =>
                  \E c \in 1..n :
                      /\ call_value = TypeAt(c)
                      /\ \A i \in 1..n : Hits(i, call.text) <= Hits(c, call.text)
                      /\ \A i \in 1..(c - 1) : Hits(i, call.text) < Hits(c, call.text)

\* a text on which a later category ties with the category returned
C13_Witness ==
    /\ pc = "called"
    /\ call.fn = "determine_contract_type"
    /\ \E c \in 1..Len(contract_types) : \E d \in (c + 1)..Len(contract_types) :
          /\ call_value = TypeAt(c)
          /\ Hits(d, call.text) = Hits(c, call.text)
          /\ Hits(c, call.text) >= 1

---------------------------------------------------------------------------
\* C14: the primary and the targeted search are issued concurrently: while
\* the primary search is outstanding the targeted search has been started
\* too, neither waits for the other to return.
C14_SearchesIssuedConcurrently ==
    "primary" \in in_flight => ("targeted" \in in_flight \/ targeted_results # None)

\* C15: when both searches succeed and the merged sequence is empty,
\* similar_contracts is an empty list and no error value; an error value is
\* in the payload only if a search returned an error.
C15_NoResultsIsNotAnError ==
    Merged =>
        /\ (MergedBoth /\ Organic(combined_results) = <<>>) =>
              /\ Listed
              /\ SimilarContracts = <<>>
              /\ ~Failed(response.returned.similar_contracts)
        /\ Failed(response.returned.similar_contracts) => (Failed(search_results) \/ Failed(targeted_results))

\* both searches succeeded, one without an organic_results key, none listing anything
C15_Witness ==
    /\ MergedBoth
    /\ "organic_results" \notin DOMAIN targeted_results
    /\ "organic_results" \in DOMAIN search_results
    /\ Organic(combined_results) = <<>>
    /\ response.returned.similar_contracts = [list |-> <<>>]

\* C20: in similar_contracts a record labelled "Direct Document" is itself a
\* direct document for is_direct_document_link and is preceded by none that
\* is not: the label never falls outside the prioritized direct-document group.
C20_DirectDocumentLabelInDirectGroup ==
    Listed =>
        LET raw == Take(prioritize_document_links(Organic(combined_results)), MaxResults)
        IN  \A j \in 1..Len(SimilarContracts) :
                SimilarContracts[j].link_type = DirectDocument =>
                    /\ IsDirect(raw[j])
                    /\ \A i \in 1..(j - 1) : IsDirect(raw[i])

\* a "Direct Document" listed after a web page by the search, and a direct
\* document of the prioritized group that is not labelled "Direct Document"
C20_Witness ==
    /\ Listed
    /\ \E i \in 1..Len(Organic(combined_results)) : \E j \in (i + 1)..Len(Organic(combined_results)) :
          /\ IsWebPage(Organic(combined_results)[i])
          /\ ExtensionCheck(UrlOf(Organic(combined_results)[j]))
    /\ \E j \in 1..Len(SimilarContracts) : \E k \in 1..Len(SimilarContracts) :
          /\ SimilarContracts[j].link_type = DirectDocument
          /\ SimilarContracts[k].link_type # DirectDocument
          /\ is_direct_document_link(SimilarContracts[k].url, SimilarContracts[k].title)

---------------------------------------------------------------------------
\* C17: there is no timeout or cancellation: the invocation returns a
\* payload if both searches are answered, and never returns if a search it
\* awaits is never answered.
C17_ReturnsIffSearchesAnswered ==
    /\ (never_returns = {}) ~> Returned
    /\ [](never_returns # {} => pc # "done")
    /\ []("raised" \notin DOMAIN response)

\* the primary search was answered, the targeted one never is: the invocation waits
C17_Witness ==
    /\ pc = "targeted"
    /\ never_returns = {"targeted"}
    /\ in_flight = {"targeted"}
    /\ search_results # None
    /\ response = None

\* s with a "www." at its start removed
StripLeadingWww(s) == IF StartsWith(s, <<"w","w","w",".">>) THEN SubSeq(s, Len(<<"w","w","w",".">>) + 1, Len(s)) ELSE s

\* C18: extract_domain returns the authority of the URL with only a leading
\* "www." removed, any other "www." kept, and "Unknown" when the authority is
\* empty or the URL cannot be parsed.
C18_OnlyLeadingWwwStripped ==
    Listed =>
        \A i \in 1..Len(SimilarContracts) :
            LET authority == netloc(SimilarContracts[i].url)
            IN  SimilarContracts[i].domain =
                    IF authority = Invalid \/ authority = <<>> THEN Unknown ELSE StripLeadingWww(authority)

\* C19: for a contract text that is empty or has fewer than 50 characters
\* once stripped, the endpoint answers 400 with the detail "Contract text
\* must be at least 50 characters long" and never invokes the pipeline.
C19_ShortTextAnswered400 ==
    (request # None /\ (request.contract_text = <<>> \/ Len(Strip(request.contract_text)) < MinChars)) =>
        /\ analysis = None
        /\ in_flight = {}
        /\ response = None
        /\ pc \in {"request", "responded"}
        /\ pc = "responded" =>
              /\ http_response.status_code = 400
              /\ http_response.detail = TooShortDetail

---------------------------------------------------------------------------
\* the positions of the candidates of permitted length
ValidAt(cands) == {i \in 1..Len(cands) : Len(cands[i]) >= 3 /\ Len(cands[i]) <= 99}

\* the position of the k-th candidate of permitted length
NthValid(cands, k) == CHOOSE i \in ValidAt(cands) : Cardinality({j \in ValidAt(cands) : j < i}) = k - 1

\* C16: extract_parties returns between one and three entries, each of 3 to
\* 99 characters; they are the first three candidates of permitted length in
\* match order (the filter comes before the cut), and the list is the single
\* entry "Parties not specified" when no candidate has a permitted length.
C16_FirstThreeValidParties ==
    (pc = "called" /\ call.fn = "extract_parties") =>
        LET cands == Candidates(call.text)
            valid == ValidAt(cands)
        IN  /\ Len(call_value) \in 1..3
            /\ \A k \in 1..Len(call_value) : Len(call_value[k]) >= 3 /\ Len(call_value[k]) <= 99
            /\ valid = {} => call_value = <<PartiesNotSpecified>>
            /\ valid # {} =>
                  /\ Len(call_value) = Min(3, Cardinality(valid))
                  /\ \A k \in 1..Len(call_value) : call_value[k] = cands[NthValid(cands, k)]

\* more than three candidates of permitted length, one that is not among the
\* first three candidates, and the longest permitted length returned
C16_Witness ==
    /\ pc = "called"
    /\ call.fn = "extract_parties"
    /\ Len(call_value) = 3
    /\ Cardinality(ValidAt(Candidates(call.text))) > 3
    /\ \E i \in 1..3 : i \notin ValidAt(Candidates(call.text))
    /\ \E k \in 1..3 : Len(call_value[k]) = 99

====
